---- MODULE Spec2Model ----
(***************************************************************************)
(* The boxing ring of HW2 (boxing/models/ring_model.py), the boxers table  *)
(* it records results in (boxing/models/boxers_model.py) and the random    *)
(* source it draws from (boxing/utils/api_utils.py).                       *)
(*                                                                         *)
(* Units.  Python floats are held as scaled integers: a reach is kept in   *)
(* tenths (10.9 is 109), a fighting skill and a skill difference in        *)
(* hundredths (1350.09 is 135009), a random draw in hundredths (0.40 is    *)
(* 40) and the logistic value as the least whole number of hundredths that *)
(* is not below it, which decides every comparison "draw < value"          *)
(* of a draw given in hundredths exactly as the float comparison does.     *)
(* A name is the sequence of its characters, so that len() and strip() are *)
(* computed and not assumed.                                               *)
(*                                                                         *)
(* Every public function is one action that models the whole call; the     *)
(* variable last records what the call did (exception, return value, the   *)
(* ring before it and the calls it made to its collaborators, in order).   *)
(***************************************************************************)
EXTENDS Integers, Sequences, FiniteSets, TLC

VARIABLES
    ring,        \* RingModel.ring: the list of Boxer objects in the ring
    boxers,      \* the boxers table: a set of rows
    last,        \* the last call: what was called and what came of it
    fought,      \* TRUE iff fight() has returned and enter_ring was not called since
    entered,     \* the boxers enter_ring has added since the ring was last
                 \* cleared (by clear_ring or by a fight that returned), in order
    held,        \* TRUE iff a caller holds the list object self.ring
    checked      \* per caller: <<boxer>> while its enter_ring(boxer) is past
                 \* the test of line 105 and before the append of line 108

vars == <<ring, boxers, last, fought, entered, held, checked>>

----------------------------------------------------------------------------
(* Bounds of the model *)

\* ids the boxers table hands out are 1..MaxId
MaxId == 2

\* the sum of all fights counters in the table never exceeds MaxOutcomes
MaxOutcomes == 2

\* a caller that holds the ring's list appends to it up to the length MaxLen,
\* and enter_ring is called while it has added fewer than MaxLen boxers since
\* the ring was last cleared
MaxLen == 3
MaxCallers == 2

----------------------------------------------------------------------------
(* Values *)

BoxerOne == <<"B", "o", "x", "e", "r", " ", "O", "n", "e">>
BoxerTwo == <<"B", "o", "x", "e", "r", " ", "T", "w", "o">>
BoxerTri == <<"B", "o", "x", "e", "r", " ", "T", "r", "i">>
BoxerBig == <<"B", "o", "x", "e", "r", " ", "B", "i", "g">>

Abs(x) == IF x < 0 THEN -x ELSE x

\* Mutant of get_weight_class: LIGHTWEIGHT starts at 134
get_weight_class_LightFrom134(weight) ==
    IF weight >= 203 THEN "HEAVYWEIGHT"
    ELSE IF weight >= 166 THEN "MIDDLEWEIGHT"
    ELSE IF weight >= 134 THEN "LIGHTWEIGHT"
    ELSE IF weight >= 125 THEN "FEATHERWEIGHT"
    ELSE "ValueError"

\* get_weight_class: the class of a weight, or the ValueError below 125
get_weight_class(weight) ==
    IF weight >= 203 THEN "HEAVYWEIGHT"
    ELSE IF weight >= 166 THEN "MIDDLEWEIGHT"
    ELSE IF weight >= 133 THEN "LIGHTWEIGHT"
    ELSE IF weight >= 125 THEN "FEATHERWEIGHT"
    ELSE "ValueError"

\* The Boxer dataclass; __post_init__ sets weight_class.  reach is in tenths.
Boxer(id, name, weight, height, reach, age) ==
    [cls |-> "Boxer", id |-> id, name |-> name, weight |-> weight,
     height |-> height, reach |-> reach, age |-> age,
     weight_class |-> get_weight_class(weight)]

\* dataclasses.asdict(boxer): the same fields in a plain dict, which is no Boxer
asdict(boxer) == [boxer EXCEPT !.cls = "dict"]

\* isinstance(x, Boxer)
IsBoxer(x) == x.cls = "Boxer"

\* The Boxer objects callers hold: the first fixture of the ring tests (skill
\* 1350.09), a second boxer of the same skill, a third whose skill is exactly
\* 1.00 above theirs and a fourth with the numbers of the tests' second
\* fixture (skill 1980.80).
SampleBoxers ==
    { Boxer(1, BoxerOne, 150, 62, 109, 18),
      Boxer(2, BoxerTwo, 150, 52, 109, 20),
      Boxer(3, BoxerTri, 150, 62, 109, 30),
      Boxer(4, BoxerBig, 220, 52, 180, 20) }

\* What callers pass to enter_ring: Boxer objects and plain dicts
EnterArgs == SampleBoxers \cup { asdict(b) : b \in {Boxer(1, BoxerOne, 150, 62, 109, 18)} }

\* What callers pass to get_fighting_skill: boxers of the least, a middle and
\* a great weight, of a short and a long name, a short and a long reach, and
\* of the ages at and next to the bounds of the age modifier and of a valid age
SkillNames == { <<"A", "l">>, BoxerOne }
SkillWeights == {125, 150, 220}
SkillReaches == {5, 109, 180}
SkillAges == {18, 24, 25, 30, 35, 36, 40}
SkillArgs ==
    { Boxer(1, n, w, 62, r, a) :
        n \in SkillNames, w \in SkillWeights, r \in SkillReaches, a \in SkillAges }

----------------------------------------------------------------------------
(* Exceptions and call records *)

\* One call made by fight() to a collaborator, or its clear_ring(): the
\* arguments id and result of update_boxer_stats, the exception the call
\* raised ("None" when it returned) and the value get_random returned
Event(call, id, result, exc, value) ==
    [call |-> call, id |-> id, result |-> result, exc |-> exc, value |-> value]

\* The record of a finished call: its argument (<<>> when it takes none), the
\* exception it raised ("None" when it returned), what it returned (a name,
\* a list or a skill in hundredths), the logistic value it computed (ceil 0
\* when it computed none), the ring, the table and the value of fought
\* before it, and the calls it made
Call(op, arg, exc, msg, retName, retList, retSkill, normalized, pre, preTbl, wasFought, effects) ==
    [op |-> op, arg |-> arg, exc |-> exc, msg |-> msg, retName |-> retName,
     retList |-> retList, retSkill |-> retSkill, normalized |-> normalized,
     pre |-> pre, preTbl |-> preTbl, fought |-> wasFought, effects |-> effects]

\* The outcome of a callee: an exception kind and message (exc "None": it
\* returned value)
Returned(value) == [exc |-> "None", msg |-> "", value |-> value]
Raised(exc, msg) == [exc |-> exc, msg |-> msg, value |-> 0]

----------------------------------------------------------------------------
(* The random source: boxing/utils/api_utils.py *)

\* What random.org (or the network) answers to one request: a timeout, another
\* request failure (connection error, HTTP error status), a body that float()
\* cannot parse, or a number (value, in hundredths)
Response(kind, value) == [kind |-> kind, value |-> value]

\* The body of get_random, lines 35-61, given the answer to its request
get_random_body(response) ==
    IF response.kind = "timeout"
    THEN Raised("RuntimeError", "Request to random.org timed out.")
    ELSE IF response.kind = "request_error"
    THEN Raised("RuntimeError", "Request to random.org failed")
    ELSE IF response.kind = "bad_text"
    THEN Raised("ValueError", "Invalid response from random.org")
    ELSE Returned(response.value)

\* get_random(max) called with the positional arguments args: Python binds the
\* arguments before the body runs and raises TypeError when max is missing
get_random(args, response) ==
    IF Len(args) # 1
    THEN Raised("TypeError", "get_random() missing 1 required positional argument: 'max'")
    ELSE get_random_body(response)

\* A random source that takes no argument and answers with a decimal fraction
\* or fails as get_random's body does: the source fight()'s call expects
RandomSource(response) == get_random_body(response)

\* The draws a zero-argument source returns, in hundredths: fractions of two
\* decimals in [0, 1)
Draws == {40, 50, 60, 73, 74}

SourceResponses ==
    { Response("number", r) : r \in Draws }
      \cup { Response(k, 0) : k \in {"timeout", "request_error", "bad_text"} }

----------------------------------------------------------------------------
(* The boxers table: boxing/models/boxers_model.py *)

Ids == 1..MaxId

HasRow(tbl, id) == \E r \in tbl : r.id = id
RowOf(tbl, id) == CHOOSE r \in tbl : r.id = id

RECURSIVE SumFights(_)
SumFights(tbl) ==
    IF tbl = {} THEN 0
    ELSE LET r == CHOOSE x \in tbl : TRUE IN r.fights + SumFights(tbl \ {r})

RECURSIVE SumWins(_)
SumWins(tbl) ==
    IF tbl = {} THEN 0
    ELSE LET r == CHOOSE x \in tbl : TRUE IN r.wins + SumWins(tbl \ {r})

\* What the database does to one transaction: it goes through, or sqlite3
\* raises an Error (which every function of boxers_model re-raises)
DbOutcomes == {"ok", "error"}

\* What the database does to the two updates of one fight(): when the first
\* fails the second is not made
DbPairs == {<<"ok", "ok">>, <<"ok", "error">>, <<"error", "ok">>}

\* Mutant of update_boxer_stats: the UPDATE has no WHERE clause and counts the
\* result for every row
update_boxer_stats_NoWhere(tbl, boxer_id, result, db) ==
    IF result \notin {"win", "loss"}
    THEN [exc |-> "ValueError", msg |-> "Invalid result", tbl |-> tbl]
    ELSE IF db = "error"
    THEN [exc |-> "sqlite3.Error", msg |-> "", tbl |-> tbl]
    ELSE IF ~HasRow(tbl, boxer_id)
    THEN [exc |-> "ValueError", msg |-> "Boxer not found", tbl |-> tbl]
    ELSE [exc |-> "None", msg |-> "",
          tbl |-> { IF result = "win"
                    THEN [row EXCEPT !.fights = @ + 1, !.wins = @ + 1]
                    ELSE [row EXCEPT !.fights = @ + 1] : row \in tbl }]

\* Mutant of update_boxer_stats: a 'win' adds to wins and leaves fights alone
update_boxer_stats_WinsOnly(tbl, boxer_id, result, db) ==
    IF result \notin {"win", "loss"}
    THEN [exc |-> "ValueError", msg |-> "Invalid result", tbl |-> tbl]
    ELSE IF db = "error"
    THEN [exc |-> "sqlite3.Error", msg |-> "", tbl |-> tbl]
    ELSE IF ~HasRow(tbl, boxer_id)
    THEN [exc |-> "ValueError", msg |-> "Boxer not found", tbl |-> tbl]
    ELSE LET row == RowOf(tbl, boxer_id)
             new == IF result = "win"
                    THEN [row EXCEPT !.wins = @ + 1]
                    ELSE [row EXCEPT !.fights = @ + 1]
         IN [exc |-> "None", msg |-> "", tbl |-> (tbl \ {row}) \cup {new}]

\* update_boxer_stats(boxer_id, result) on table tbl: the exception or None,
\* and the table afterwards
update_boxer_stats(tbl, boxer_id, result, db) ==
    IF result \notin {"win", "loss"}
    THEN [exc |-> "ValueError", msg |-> "Invalid result", tbl |-> tbl]
    ELSE IF db = "error"
    THEN [exc |-> "sqlite3.Error", msg |-> "", tbl |-> tbl]
    ELSE IF ~HasRow(tbl, boxer_id)
    THEN [exc |-> "ValueError", msg |-> "Boxer not found", tbl |-> tbl]
    ELSE LET row == RowOf(tbl, boxer_id)
             new == IF result = "win"
                    THEN [row EXCEPT !.fights = @ + 1, !.wins = @ + 1]
                    ELSE [row EXCEPT !.fights = @ + 1]
         IN [exc |-> "None", msg |-> "", tbl |-> (tbl \ {row}) \cup {new}]

\* str.strip(): the name without its leading and trailing whitespace
Whitespace == {" ", "\t", "\n"}

RECURSIVE lstrip(_)
lstrip(name) ==
    IF name # <<>> /\ Head(name) \in Whitespace THEN lstrip(Tail(name)) ELSE name

RECURSIVE rstrip(_)
rstrip(name) ==
    IF name # <<>> /\ name[Len(name)] \in Whitespace
    THEN rstrip(SubSeq(name, 1, Len(name) - 1))
    ELSE name

strip(name) == rstrip(lstrip(name))

\* Mutant of create_boxer_invalid: a height of 0 passes
create_boxer_invalid_ZeroHeight(name, weight, height, reach, age) ==
    IF strip(name) = <<>> THEN "Invalid boxer name"
    ELSE IF weight < 125 THEN "Invalid weight"
    ELSE IF height < 0 THEN "Invalid height"
    ELSE IF reach <= 0 THEN "Invalid reach"
    ELSE IF ~(18 <= age /\ age <= 40) THEN "Invalid age"
    ELSE ""

\* The checks create_boxer makes before it opens the database, in order: the
\* message of the ValueError raised, or "" when all pass
create_boxer_invalid(name, weight, height, reach, age) ==
    IF strip(name) = <<>> THEN "Invalid boxer name"
    ELSE IF weight < 125 THEN "Invalid weight"
    ELSE IF height <= 0 THEN "Invalid height"
    ELSE IF reach <= 0 THEN "Invalid reach"
    ELSE IF ~(18 <= age /\ age <= 40) THEN "Invalid age"
    ELSE ""

\* A new row as INSERT INTO boxers (name, weight, height, reach, age) leaves
\* it: the counters start at 0
NewRow(id, name, weight, height, reach, age) ==
    [id |-> id, name |-> name, weight |-> weight, height |-> height,
     reach |-> reach, age |-> age, fights |-> 0, wins |-> 0]

\* Mutant of create_boxer: no SELECT for the name before the INSERT
create_boxer_NoLookup(tbl, name, weight, height, reach, age, db, newId) ==
    LET invalid == create_boxer_invalid(name, weight, height, reach, age) IN
    IF invalid # ""
    THEN [exc |-> "ValueError", msg |-> invalid, tbl |-> tbl]
    ELSE IF db = "error"
    THEN [exc |-> "sqlite3.Error", msg |-> "", tbl |-> tbl]
    ELSE IF db = "integrity"
    THEN [exc |-> "ValueError", msg |-> "already exists", tbl |-> tbl]
    ELSE [exc |-> "None", msg |-> "",
          tbl |-> tbl \cup {NewRow(newId, name, weight, height, reach, age)}]

\* create_boxer(name, ...) on table tbl, where the database gives the new row
\* the id newId; db is what the database does: "ok", "error" (an sqlite3.Error
\* on the way to the SELECT) or "integrity" (an sqlite3.IntegrityError from
\* the INSERT)
create_boxer(tbl, name, weight, height, reach, age, db, newId) ==
    LET invalid == create_boxer_invalid(name, weight, height, reach, age) IN
    IF invalid # ""
    THEN [exc |-> "ValueError", msg |-> invalid, tbl |-> tbl]
    ELSE IF db = "error"
    THEN [exc |-> "sqlite3.Error", msg |-> "", tbl |-> tbl]
    ELSE IF \E r \in tbl : r.name = name
    THEN [exc |-> "ValueError", msg |-> "already exists", tbl |-> tbl]
    ELSE IF db = "integrity"
    THEN [exc |-> "ValueError", msg |-> "already exists", tbl |-> tbl]
    ELSE [exc |-> "None", msg |-> "",
          tbl |-> tbl \cup {NewRow(newId, name, weight, height, reach, age)}]

\* delete_boxer(boxer_id) on table tbl
delete_boxer(tbl, boxer_id, db) ==
    IF db = "error"
    THEN [exc |-> "sqlite3.Error", msg |-> "", tbl |-> tbl]
    ELSE IF ~HasRow(tbl, boxer_id)
    THEN [exc |-> "ValueError", msg |-> "Boxer not found", tbl |-> tbl]
    ELSE [exc |-> "None", msg |-> "", tbl |-> {r \in tbl : r.id # boxer_id}]

\* What callers pass to create_boxer: the numbers of two of the boxers above
\* and values that fail a check
CreateArgs ==
    { <<BoxerOne, 150, 62, 109, 18>>,
      <<BoxerTwo, 150, 52, 109, 20>>,
      <<<<" ", " ">>, 150, 62, 109, 18>>,
      <<BoxerOne, 124, 62, 109, 18>>,
      <<BoxerOne, 150, 62, 109, 41>> }

\* Arguments of create_boxer on both sides of each of its checks: two sets
\* that pass all of them, at the least and the greatest values allowed, and
\* the first set with one argument changed to a value that fails
CreateChecks ==
    { <<BoxerOne, 125, 1, 1, 18>>,
      <<BoxerTwo, 203, 52, 109, 40>>,
      <<<<>>, 125, 1, 1, 18>>,
      <<<<" ", "\t">>, 125, 1, 1, 18>>,
      <<BoxerOne, 124, 1, 1, 18>>,
      <<BoxerOne, 125, 0, 1, 18>>,
      <<BoxerOne, 125, -1, 1, 18>>,
      <<BoxerOne, 125, 1, 0, 18>>,
      <<BoxerOne, 125, 1, -1, 18>>,
      <<BoxerOne, 125, 1, 1, 17>>,
      <<BoxerOne, 125, 1, 1, 41>> }

----------------------------------------------------------------------------
(* The ring: boxing/models/ring_model.py *)

\* The state a call of RingModel works on and what it has done so far: once
\* exc is not "None" an exception is propagating and no later statement runs
Frame(r, tbl) ==
    [ring |-> r, tbl |-> tbl, exc |-> "None", msg |-> "", effects |-> <<>>,
     retName |-> <<>>, retList |-> <<>>, retSkill |-> 0,
     normalized |-> [ceil |-> 0, one |-> FALSE], retIsRing |-> FALSE]

Raise(frame, exc, msg) == [frame EXCEPT !.exc = exc, !.msg = msg]

\* Boxer(id, name, weight, height, reach, age) as a statement of a caller:
\* the dataclass's __init__ sets the fields and calls __post_init__, whose
\* get_weight_class(self.weight) raises for a weight below 125, so that no
\* object comes back; otherwise the new Boxer is what the frame returns
construct_Boxer(frame, id, name, weight, height, reach, age) ==
    IF get_weight_class(weight) = "ValueError"
    THEN Raise(frame, "ValueError", "Invalid weight")
    ELSE [frame EXCEPT !.retList = <<Boxer(id, name, weight, height, reach, age)>>]

\* Weights on both sides of every limit of get_weight_class
WeightArgs == {-1, 0, 124, 125, 132, 133, 165, 166, 202, 203, 250}

\* Mutant of get_fighting_skill: the modifier -2 starts at age 35
get_fighting_skill_FromThirtyFive(boxer) ==
    LET age_modifier == IF boxer.age < 25 THEN -1 ELSE IF boxer.age >= 35 THEN -2 ELSE 0
    IN (boxer.weight * Len(boxer.name)) * 100 + boxer.reach + age_modifier * 100

\* get_fighting_skill(boxer), in hundredths
get_fighting_skill(boxer) ==
    LET age_modifier == IF boxer.age < 25 THEN -1 ELSE IF boxer.age > 35 THEN -2 ELSE 0
    IN (boxer.weight * Len(boxer.name)) * 100 + boxer.reach + age_modifier * 100

\* LogisticSteps[k] is the least skill difference, in hundredths, at which
\* 1 / (1 + math.e ** (-delta)) evaluates above (49 + k) / 100
LogisticSteps ==
    << 1, 5, 9, 13, 17, 21, 25, 29, 33, 37, 41, 45, 49, 54, 58, 62, 67, 71, 76,
       81, 85, 90, 95, 100, 105, 110, 116, 121, 127, 133, 139, 146, 152, 159,
       166, 174, 182, 191, 200, 210, 220, 232, 245, 259, 276, 295, 318, 348,
       390, 460 >>

\* 1 / (1 + math.e ** (-delta)) for delta in hundredths: the least whole
\* number of hundredths not below it (50 for delta = 0, 100 from 4.60 on)
logistic(delta) ==
    50 + Cardinality({k \in 1..Len(LogisticSteps) : delta >= LogisticSteps[k]})

\* The least skill difference, in hundredths, at which the double
\* 1 / (1 + math.e ** (-delta)) is 1.0: math.e ** (-36.74) is below half the
\* gap between 1.0 and the next double, so the sum rounds to 1.0
LogisticOne == 3674

\* Mutant of logistic_value: the value stays below 1.0 as the real function does
logistic_value_NeverOne(delta) == [ceil |-> logistic(delta), one |-> FALSE]

\* The double fight() computes at line 52 for delta in hundredths, as far as
\* comparisons see it: the least whole number of hundredths not below it
\* (which is 50 only for the value 0.5, the function's least) and whether it
\* is 1.0
logistic_value(delta) == [ceil |-> logistic(delta), one |-> delta >= LogisticOne]

\* fight(), line 52: normalized_delta is computed
normalize(frame, delta) ==
    IF frame.exc # "None" THEN frame
    ELSE [frame EXCEPT !.normalized = logistic_value(delta)]

\* Mutant of select_winner: the draw is compared for the boxer of the higher
\* skill, whichever place of the ring that boxer has
select_winner_FavoursSkill(random_number, normalized_delta, boxer_1, boxer_2) ==
    LET swap == get_fighting_skill(boxer_2) > get_fighting_skill(boxer_1)
        first == IF swap THEN boxer_2 ELSE boxer_1
        second == IF swap THEN boxer_1 ELSE boxer_2
    IN IF random_number < normalized_delta
       THEN [winner |-> first, loser |-> second]
       ELSE [winner |-> second, loser |-> first]

\* Mutant of select_winner: a draw equal to the logistic value goes to boxer_1
select_winner_AtMost(random_number, normalized_delta, boxer_1, boxer_2) ==
    IF random_number <= normalized_delta
    THEN [winner |-> boxer_1, loser |-> boxer_2]
    ELSE [winner |-> boxer_2, loser |-> boxer_1]

\* Mutant of TooFewBoxers: the test is off by one
TooFewBoxers_OffByOne(r) == Len(r) < 1

\* fight(), line 41: too few boxers to fight
TooFewBoxers(r) == Len(r) < 2

\* Mutant of RingIsFull: the test is off by one
RingIsFull_OffByOne(r) == Len(r) > 2

\* enter_ring(), line 105: no room for another boxer
RingIsFull(r) == Len(r) >= 2

\* fight(), lines 56-61: who wins, given the draw and the logistic value
select_winner(random_number, normalized_delta, boxer_1, boxer_2) ==
    IF random_number < normalized_delta
    THEN [winner |-> boxer_1, loser |-> boxer_2]
    ELSE [winner |-> boxer_2, loser |-> boxer_1]

\* Mutant of clear_ring: only the last boxer leaves the ring
clear_ring_RemovesLast(frame) ==
    IF frame.exc # "None" THEN frame
    ELSE IF frame.ring = <<>> THEN frame
    ELSE [frame EXCEPT !.ring = SubSeq(@, 1, Len(@) - 1)]

\* Mutant of clear_ring: an empty ring is an error
clear_ring_RaisesOnEmpty(frame) ==
    IF frame.exc # "None" THEN frame
    ELSE IF frame.ring = <<>> THEN Raise(frame, "ValueError", "Ring is empty")
    ELSE [frame EXCEPT !.ring = <<>>]

\* clear_ring()
clear_ring(frame) ==
    IF frame.exc # "None" THEN frame
    ELSE IF frame.ring = <<>> THEN frame
    ELSE [frame EXCEPT !.ring = <<>>]

\* get_boxers(): both branches of its test pass; it returns self.ring, the
\* list object itself and no copy of it
get_boxers(frame) ==
    IF frame.exc # "None" THEN frame
    ELSE [frame EXCEPT !.retList = frame.ring, !.retIsRing = TRUE]

\* Mutant of enter_ring: a boxer whose id is in the ring already is turned away
enter_ring_RejectsSameId(frame, boxer) ==
    IF ~IsBoxer(boxer)
    THEN Raise(frame, "TypeError", "Invalid type: Expected 'Boxer'")
    ELSE IF RingIsFull(frame.ring)
    THEN Raise(frame, "ValueError", "Ring is full, cannot add more boxers.")
    ELSE IF \E k \in 1..Len(frame.ring) : frame.ring[k].id = boxer.id
    THEN Raise(frame, "ValueError", "Boxer is already in the ring.")
    ELSE [frame EXCEPT !.ring = Append(@, boxer)]

\* Mutant of enter_ring: the ring's size is tested before the argument's type
enter_ring_CapacityFirst(frame, boxer) ==
    IF RingIsFull(frame.ring)
    THEN Raise(frame, "ValueError", "Ring is full, cannot add more boxers.")
    ELSE IF ~IsBoxer(boxer)
    THEN Raise(frame, "TypeError", "Invalid type: Expected 'Boxer'")
    ELSE [frame EXCEPT !.ring = Append(@, boxer)]

\* Mutant of enter_ring: the boxer is put in front of those in the ring
enter_ring_Prepends(frame, boxer) ==
    IF ~IsBoxer(boxer)
    THEN Raise(frame, "TypeError", "Invalid type: Expected 'Boxer'")
    ELSE IF RingIsFull(frame.ring)
    THEN Raise(frame, "ValueError", "Ring is full, cannot add more boxers.")
    ELSE [frame EXCEPT !.ring = <<boxer>> \o @]

\* Mutant of enter_ring: the boxer is appended before the ring is found full
enter_ring_AppendsFirst(frame, boxer) ==
    IF ~IsBoxer(boxer)
    THEN Raise(frame, "TypeError", "Invalid type: Expected 'Boxer'")
    ELSE IF RingIsFull(frame.ring)
    THEN Raise([frame EXCEPT !.ring = Append(@, boxer)],
               "ValueError", "Ring is full, cannot add more boxers.")
    ELSE [frame EXCEPT !.ring = Append(@, boxer)]

\* enter_ring(boxer) up to and including the size test of line 105
enter_ring_tests(frame, boxer) ==
    IF ~IsBoxer(boxer)
    THEN Raise(frame, "TypeError", "Invalid type: Expected 'Boxer'")
    ELSE IF RingIsFull(frame.ring)
    THEN Raise(frame, "ValueError", "Ring is full, cannot add more boxers.")
    ELSE frame

\* enter_ring(boxer) from line 108: self.ring.append(boxer) on the ring as it
\* is by then
enter_ring_appends(frame, boxer) == [frame EXCEPT !.ring = Append(@, boxer)]

\* enter_ring(boxer)
enter_ring(frame, boxer) ==
    IF ~IsBoxer(boxer)
    THEN Raise(frame, "TypeError", "Invalid type: Expected 'Boxer'")
    ELSE IF RingIsFull(frame.ring)
    THEN Raise(frame, "ValueError", "Ring is full, cannot add more boxers.")
    ELSE [frame EXCEPT !.ring = Append(@, boxer)]

\* One call of update_boxer_stats made by fight()
record_stats(frame, boxer_id, result, db) ==
    IF frame.exc # "None" THEN frame
    ELSE LET u == update_boxer_stats(frame.tbl, boxer_id, result, db)
         IN [frame EXCEPT !.tbl = u.tbl, !.exc = u.exc, !.msg = u.msg,
                          !.effects = Append(@, Event("update_boxer_stats", boxer_id, result, u.exc, 0))]

\* Mutant of draw_random: an exception of the random source is caught and the
\* fight goes on with the value 0
draw_random_Swallows(frame, draw) ==
    IF frame.exc # "None" THEN frame
    ELSE [frame EXCEPT !.effects = Append(@, Event("get_random", 0, "", draw.exc, draw.value))]

\* fight(), line 54: the call of the random source, whose outcome is draw
draw_random(frame, draw) ==
    IF frame.exc # "None" THEN frame
    ELSE [frame EXCEPT !.exc = draw.exc, !.msg = draw.msg,
                       !.effects = Append(@, Event("get_random", 0, "", draw.exc, draw.value))]

\* Mutant of record_results: the two updates are one transaction, so that a
\* failure of the second undoes the first
record_results_RollsBack(frame, winner, loser, dbWin, dbLoss) ==
    LET both == record_stats(record_stats(frame, winner.id, "win", dbWin),
                             loser.id, "loss", dbLoss)
    IN IF both.exc # "None" THEN [both EXCEPT !.tbl = frame.tbl] ELSE both

\* Mutant of record_results: the loser's result is recorded even when the
\* recording of the winner's raised, and that exception is raised afterwards
record_results_AttemptsBoth(frame, winner, loser, dbWin, dbLoss) ==
    IF frame.exc # "None" THEN frame
    ELSE LET won == record_stats(frame, winner.id, "win", dbWin)
             lost == record_stats([won EXCEPT !.exc = "None"], loser.id, "loss", dbLoss)
         IN IF won.exc # "None" THEN [lost EXCEPT !.exc = won.exc, !.msg = won.msg]
            ELSE lost

\* Mutant of record_results: the loser's result is recorded first
record_results_LossFirst(frame, winner, loser, dbWin, dbLoss) ==
    record_stats(record_stats(frame, loser.id, "loss", dbLoss), winner.id, "win", dbWin)

\* fight(), lines 63-64: the winner's result, then the loser's
record_results(frame, winner, loser, dbWin, dbLoss) ==
    record_stats(record_stats(frame, winner.id, "win", dbWin), loser.id, "loss", dbLoss)

\* Mutant of fight_clear_ring: the ring is cleared whether or not the results
\* were recorded, as in a finally clause
fight_clear_ring_Always(frame) ==
    [frame EXCEPT !.ring = <<>>,
                  !.effects = Append(@, Event("clear_ring", 0, "", "None", 0))]

\* Mutant of fight_clear_ring: the ring is not cleared
fight_clear_ring_Never(frame) == frame

\* fight(), line 66: the ring is cleared
fight_clear_ring(frame) ==
    IF frame.exc # "None" THEN frame
    ELSE [clear_ring(frame) EXCEPT !.effects = Append(@, Event("clear_ring", 0, "", "None", 0))]

\* fight(), line 68: the winner's name is returned
return_name(frame, winner) ==
    IF frame.exc # "None" THEN frame ELSE [frame EXCEPT !.retName = winner.name]

\* fight() on ring r and table tbl, where the random source's call ends as
\* draw and the database treats the two updates as dbWin and dbLoss
fight(r, tbl, draw, dbWin, dbLoss) ==
    IF TooFewBoxers(r)
    THEN Raise(Frame(r, tbl), "ValueError", "There must be two boxers to start a fight.")
    ELSE IF Len(get_boxers(Frame(r, tbl)).retList) # 2
    THEN Raise(Frame(r, tbl), "ValueError", "wrong number of values to unpack")
    ELSE LET boxer_1 == r[1]
             boxer_2 == r[2]
             skill_1 == get_fighting_skill(boxer_1)
             skill_2 == get_fighting_skill(boxer_2)
             delta == Abs(skill_1 - skill_2)
             normalized == normalize(Frame(r, tbl), delta)
             normalized_delta == normalized.normalized.ceil
             drawn == draw_random(normalized, draw)
             pair == select_winner(draw.value, normalized_delta, boxer_1, boxer_2)
         IN return_name(
                fight_clear_ring(
                    record_results(drawn, pair.winner, pair.loser, dbWin, dbLoss)),
                pair.winner)

----------------------------------------------------------------------------
(* The calls *)

\* RingModel() with an empty table
\* The callers that share one RingModel
Callers == 1..MaxCallers

Init ==
    /\ ring = <<>>
    /\ boxers = {}
    /\ last = Call("__init__", <<>>, "None", "", <<>>, <<>>, 0, [ceil |-> 0, one |-> FALSE],
                   <<>>, {}, FALSE, <<>>)
    /\ fought = FALSE
    /\ entered = <<>>
    /\ held = FALSE
    /\ checked = [c \in Callers |-> <<>>]

\* A call of RingModel that worked on frame f is over
Done(op, arg, f) ==
    /\ ring' = f.ring
    /\ boxers' = f.tbl
    /\ last' = Call(op, arg, f.exc, f.msg, f.retName, f.retList, f.retSkill, f.normalized,
                     ring, boxers, fought, f.effects)
    /\ fought' = IF op = "fight" /\ f.exc = "None" THEN TRUE
                 ELSE IF op = "enter_ring" THEN FALSE
                 ELSE fought
    /\ entered' = IF op = "enter_ring" /\ f.exc = "None" THEN Append(entered, arg[1])
                  ELSE IF op \in {"clear_ring", "fight"} /\ f.exc = "None" THEN <<>>
                  ELSE entered
    /\ Len(entered') <= MaxLen
    /\ SumFights(boxers') <= MaxOutcomes

\* A call of RingModel is over and the caller keeps no list it returned
Finish(op, arg, f) ==
    /\ Done(op, arg, f)
    /\ held' = held
    /\ checked' = checked

\* A call of boxers_model with the arguments arg that ended as u is over
FinishTable(op, arg, u) ==
    /\ ring' = ring
    /\ boxers' = u.tbl
    /\ last' = Call(op, arg, u.exc, u.msg, <<>>, <<>>, 0, [ceil |-> 0, one |-> FALSE],
                     ring, boxers, fought, <<>>)
    /\ fought' = fought
    /\ entered' = entered
    /\ held' = held
    /\ checked' = checked
    /\ SumFights(boxers') <= MaxOutcomes

EnterRing ==
    \E boxer \in EnterArgs : Finish("enter_ring", <<boxer>>, enter_ring(Frame(ring, boxers), boxer))

ClearRing == Finish("clear_ring", <<>>, clear_ring(Frame(ring, boxers)))

GetBoxers == Finish("get_boxers", <<>>, get_boxers(Frame(ring, boxers)))

\* get_boxers() by a caller that keeps the list it returns
GetBoxersKept ==
    LET f == get_boxers(Frame(ring, boxers)) IN
    /\ Done("get_boxers", <<>>, f)
    /\ held' = (held \/ (f.exc = "None" /\ f.retIsRing))
    /\ checked' = checked

\* What the caller's own statement stmt on the list it holds leaves of the
\* ring, which is that list (arg is what the statement was given)
CallerDid(stmt, arg, r) ==
    /\ held
    /\ ring' = r
    /\ last' = Call(stmt, arg, "None", "", <<>>, <<>>, 0, [ceil |-> 0, one |-> FALSE],
                     ring, boxers, fought, <<>>)
    /\ UNCHANGED <<boxers, fought, entered, held, checked>>

\* The caller's statement kept.append(x) on the list get_boxers returned
CallerAppends ==
    \E x \in EnterArgs :
        /\ Len(ring) < MaxLen
        /\ CallerDid("list.append", <<x>>, Append(ring, x))

\* The caller's statement kept.pop() on the list get_boxers returned
CallerPops ==
    /\ ring # <<>>
    /\ CallerDid("list.pop", <<>>, SubSeq(ring, 1, Len(ring) - 1))

\* Caller c starts enter_ring(boxer) and runs it up to the size test: the
\* call ends there if it raises, and is left before line 108 if it does not.
\* Nothing in RingModel keeps another caller from running in between.
EnterRingTests(c) ==
    /\ checked[c] = <<>>
    /\ \E boxer \in EnterArgs :
          LET f == enter_ring_tests(Frame(ring, boxers), boxer) IN
          IF f.exc # "None"
          THEN /\ Done("enter_ring", <<boxer>>, f)
               /\ UNCHANGED <<held, checked>>
          ELSE /\ checked' = [checked EXCEPT ![c] = <<boxer>>]
               /\ UNCHANGED <<ring, boxers, last, fought, entered, held>>

\* Caller c runs line 108 of the enter_ring it has started, and the call is
\* over
EnterRingAppends(c) ==
    /\ checked[c] # <<>>
    /\ Done("enter_ring", <<checked[c][1]>>,
            enter_ring_appends(Frame(ring, boxers), checked[c][1]))
    /\ checked' = [checked EXCEPT ![c] = <<>>]
    /\ held' = held

EnterRingStarted == \E c \in Callers : EnterRingTests(c)

EnterRingFinished == \E c \in Callers : EnterRingAppends(c)

\* A caller constructs a Boxer with the fields of one of the boxers above and
\* any of the weights
NewBoxer ==
    \E b \in {s \in SampleBoxers : s.id <= MaxId}, weight \in WeightArgs :
        Finish("Boxer", <<b.id, b.name, weight, b.height, b.reach, b.age>>,
               construct_Boxer(Frame(ring, boxers), b.id, b.name, weight, b.height, b.reach, b.age))

\* enter_ring with the Boxer the caller has just constructed
EnterRingNew ==
    /\ last.op = "Boxer"
    /\ last.exc = "None"
    /\ Finish("enter_ring", <<last.retList[1]>>,
              enter_ring(Frame(ring, boxers), last.retList[1]))

\* get_fighting_skill(boxer) called from outside, with a boxer of the ring or
\* any other
GetFightingSkill ==
    \E boxer \in SkillArgs \cup {ring[k] : k \in 1..Len(ring)} :
        Finish("get_fighting_skill", <<boxer>>,
               [Frame(ring, boxers) EXCEPT !.retSkill = get_fighting_skill(boxer)])

\* fight() as shipped: line 54 calls get_random with no argument
Fight ==
    \E response \in SourceResponses, db \in DbPairs :
        Finish("fight", <<>>, fight(ring, boxers, get_random(<<>>, response), db[1], db[2]))

\* fight() with ring_model.get_random replaced by a source that takes no
\* argument
FightStubbed ==
    \E response \in SourceResponses, db \in DbPairs :
        Finish("fight", <<>>, fight(ring, boxers, RandomSource(response), db[1], db[2]))

\* fight() with that source when it answers 0.40 or 0.60: either boxer of the
\* ring can win
FightDecided ==
    \E r \in {40, 60}, db \in DbPairs :
        Finish("fight", <<>>,
               fight(ring, boxers, RandomSource(Response("number", r)), db[1], db[2]))

CreateBoxer ==
    \E a \in CreateArgs, db \in DbOutcomes, newId \in Ids :
        /\ ~HasRow(boxers, newId)
        /\ FinishTable("create_boxer", <<a[1]>>,
                       create_boxer(boxers, a[1], a[2], a[3], a[4], a[5], db, newId))

\* create_boxer with arguments around its checks; all five are recorded.  A
\* call that inserts is given an id that no row has.
CreateBoxerChecked ==
    \E a \in CreateChecks, db \in DbOutcomes \cup {"integrity"}, newId \in Ids :
        LET u == create_boxer(boxers, a[1], a[2], a[3], a[4], a[5], db, newId) IN
        /\ u.exc = "None" => ~HasRow(boxers, newId)
        /\ FinishTable("create_boxer", a, u)

DeleteBoxer ==
    \E boxer_id \in Ids, db \in DbOutcomes :
        FinishTable("delete_boxer", <<boxer_id>>, delete_boxer(boxers, boxer_id, db))

UpdateBoxerStats ==
    \E boxer_id \in Ids, result \in {"win", "loss", "draw"}, db \in DbOutcomes :
        FinishTable("update_boxer_stats", <<boxer_id, result>>,
                    update_boxer_stats(boxers, boxer_id, result, db))

TableCalls == CreateBoxer \/ DeleteBoxer \/ UpdateBoxerStats

\* The program as shipped
Next == EnterRing \/ ClearRing \/ GetBoxers \/ Fight \/ TableCalls

Spec == Init /\ [][Next]_vars

\* The program with a working zero-argument random source in fight(): boxers
\* are created and deleted, and their counters change through fights
NextStubbed ==
    EnterRing \/ ClearRing \/ GetBoxers \/ FightStubbed \/ CreateBoxer \/ DeleteBoxer

SpecStubbed == Init /\ [][NextStubbed]_vars

\* The counters of the table: boxers are created and deleted, results are
\* recorded from outside and by fights with a working random source
NextCounters ==
    CreateBoxer \/ DeleteBoxer \/ UpdateBoxerStats \/ EnterRing \/ FightDecided

SpecCounters == Init /\ [][NextCounters]_vars

\* The ring and a caller that keeps and changes the list get_boxers returns
NextAliased ==
    EnterRing \/ ClearRing \/ GetBoxersKept \/ Fight \/ CallerAppends \/ CallerPops

SpecAliased == Init /\ [][NextAliased]_vars

\* Boxers as callers construct them, and the ring they enter
NextWeights == NewBoxer \/ EnterRingNew \/ ClearRing

SpecWeights == Init /\ [][NextWeights]_vars

\* The table of boxers alone
NextStore == CreateBoxerChecked \/ DeleteBoxer \/ UpdateBoxerStats

SpecStore == Init /\ [][NextStore]_vars

\* The ring with callers whose calls of enter_ring are not serialized
NextInterleaved == EnterRingStarted \/ EnterRingFinished \/ ClearRing

SpecInterleaved == Init /\ [][NextInterleaved]_vars

\* The ring and calls of get_fighting_skill from outside
NextSkill == EnterRing \/ ClearRing \/ GetFightingSkill

SpecSkill == Init /\ [][NextSkill]_vars

----------------------------------------------------------------------------
(* The ring's size and the rejected calls *)

\* C1: after any sequence of enter_ring, fight, clear_ring and get_boxers
\* calls, whether they returned or raised, the ring holds 0, 1 or 2 boxers.
C1_RingSizeAtMostTwo == Len(ring) \in {0, 1, 2}

\* A full ring has just turned a boxer away
C1_Witness ==
    /\ last.op = "enter_ring"
    /\ last.exc = "ValueError"
    /\ Len(ring) = 2

\* C2: enter_ring called with a Boxer while the ring holds two boxers raises
\* ValueError "Ring is full, cannot add more boxers." and the ring holds the
\* same two boxers in the same order afterwards.
C2_FullRingRejects ==
    (last.op = "enter_ring" /\ Len(last.pre) = 2 /\ IsBoxer(last.arg[1]))
        => /\ last.exc = "ValueError"
           /\ last.msg = "Ring is full, cannot add more boxers."
           /\ ring = last.pre

\* A Boxer that is in neither place of the full ring was passed to enter_ring
C2_Witness ==
    /\ last.op = "enter_ring"
    /\ Len(last.pre) = 2
    /\ IsBoxer(last.arg[1])
    /\ last.arg[1] # last.pre[1]
    /\ last.arg[1] # last.pre[2]
    /\ last.pre[1] # last.pre[2]

\* C3: fight called while the ring holds fewer than two boxers raises
\* ValueError "There must be two boxers to start a fight.", leaves the ring as
\* it was, calls neither the random source nor update_boxer_stats and leaves
\* every counter of the table as it was.
C3_FightNeedsTwo ==
    (last.op = "fight" /\ Len(last.pre) < 2)
        => /\ last.exc = "ValueError"
           /\ last.msg = "There must be two boxers to start a fight."
           /\ ring = last.pre
           /\ last.effects = <<>>
           /\ boxers = last.preTbl

\* fight was called on a ring of one boxer
C3_Witness ==
    /\ last.op = "fight"
    /\ Len(last.pre) = 1

----------------------------------------------------------------------------
(* A fight between two boxers *)

\* The calls of update_boxer_stats(id, result) in effects that returned
Recorded(effects, id, result) ==
    {k \in 1..Len(effects) :
        /\ effects[k].call = "update_boxer_stats"
        /\ effects[k].id = id
        /\ effects[k].result = result
        /\ effects[k].exc = "None"}

\* The calls of update_boxer_stats in effects, whatever came of them
Recordings(effects) ==
    {k \in 1..Len(effects) : effects[k].call = "update_boxer_stats"}

\* Some call of update_boxer_stats in effects raised
RecordingFailed(effects) ==
    \E k \in Recordings(effects) : effects[k].exc # "None"

\* The random source was asked and failed to answer: the request timed out or
\* failed, or the answer was no number
SourceFailed(effects) ==
    \E k \in 1..Len(effects) :
        /\ effects[k].call = "get_random"
        /\ effects[k].exc \in {"RuntimeError", "ValueError"}

\* The counters of every row went up by what the calls in effects recorded,
\* and no row came or went
CountersFollow(effects, before, after) ==
    /\ {r.id : r \in after} = {r.id : r \in before}
    /\ \A r \in after :
        LET old == RowOf(before, r.id) IN
        /\ r.fights = old.fights + Cardinality(Recorded(effects, r.id, "win"))
                                 + Cardinality(Recorded(effects, r.id, "loss"))
        /\ r.wins = old.wins + Cardinality(Recorded(effects, r.id, "win"))

\* The fight that was the last call ended with the boxer at place w of the
\* ring as winner: it returned w's name, recorded one win for w's id and one
\* loss for the other boxer's id and nothing else, and the ring is empty
FightWonBy(w) ==
    LET winner == last.pre[w]
        loser == last.pre[3 - w]
    IN /\ last.exc = "None"
       /\ last.retName = winner.name
       /\ Cardinality(Recordings(last.effects)) = 2
       /\ Cardinality(Recorded(last.effects, winner.id, "win")) = 1
       /\ Cardinality(Recorded(last.effects, loser.id, "loss")) = 1
       /\ CountersFollow(last.effects, last.preTbl, boxers)
       /\ ring = <<>>

\* C4: a fight started on a ring of two boxers whose results the table can
\* record (no update_boxer_stats call fails) and whose random source answers
\* returns the name of one of the two, records exactly one win for that
\* boxer's id and one loss for the other's, and leaves the ring empty.
C4_FightRecordsAndClears ==
    (/\ last.op = "fight"
     /\ Len(last.pre) = 2
     /\ HasRow(last.preTbl, last.pre[1].id)
     /\ HasRow(last.preTbl, last.pre[2].id)
     /\ ~RecordingFailed(last.effects)
     /\ ~SourceFailed(last.effects))
        => (FightWonBy(1) \/ FightWonBy(2))

\* A fight of two different boxers, both in the table, has returned
C4_Witness ==
    /\ last.op = "fight"
    /\ Len(last.pre) = 2
    /\ last.pre[1].id # last.pre[2].id
    /\ HasRow(last.preTbl, last.pre[1].id)
    /\ HasRow(last.preTbl, last.pre[2].id)
    /\ last.exc = "None"

\* The fight that was the last call was between two boxers and its random
\* source returned a draw
Drew ==
    /\ last.op = "fight"
    /\ Len(last.pre) = 2
    /\ last.effects # <<>>
    /\ last.effects[1].call = "get_random"
    /\ last.effects[1].exc = "None"

\* The draw of that fight, in hundredths
DrawOf == last.effects[1].value

\* The logistic value of that fight, in hundredths rounded up
ProbabilityOf ==
    logistic(Abs(get_fighting_skill(last.pre[1]) - get_fighting_skill(last.pre[2])))

\* In that fight the boxer at place w of the ring was taken as winner: the
\* win was recorded (or its recording tried) for w's id, the loss, if its
\* recording was reached, for the other boxer's id, and the name returned,
\* if one was, is w's
TakenAsWinner(w) ==
    LET e == last.effects
        winner == last.pre[w]
        loser == last.pre[3 - w]
    IN /\ Len(e) >= 2
       /\ e[2].call = "update_boxer_stats" /\ e[2].result = "win" /\ e[2].id = winner.id
       /\ Len(e) >= 3 =>
            e[3].call = "update_boxer_stats" /\ e[3].result = "loss" /\ e[3].id = loser.id
       /\ last.exc = "None" => last.retName = winner.name

FightOrder == <<"get_random", "update_boxer_stats", "update_boxer_stats", "clear_ring">>

----------------------------------------------------------------------------
(* clear_ring and get_boxers *)

\* C9: clear_ring never raises and leaves the ring empty, whether the ring
\* held 0, 1 or 2 boxers; on an empty ring it changes nothing, and a second
\* clear_ring leaves what the first left.
C9_ClearRingEmpties ==
    /\ last.op = "clear_ring" =>
        /\ last.exc = "None"
        /\ ring = <<>>
        /\ boxers = last.preTbl
    /\ LET once == clear_ring(Frame(ring, boxers)) IN
        /\ once.exc = "None"
        /\ once.ring = <<>>
        /\ ring = <<>> => once = Frame(ring, boxers)
        /\ clear_ring(once) = once

\* clear_ring was called on a ring of two boxers
C9_Witness ==
    /\ last.op = "clear_ring"
    /\ Len(last.pre) = 2
    /\ ring = <<>>

\* C10: get_boxers called while the ring is empty raises ValueError "Ring is
\* empty" and returns nothing.
C10_GetBoxersEmptyRaises ==
    (last.op = "get_boxers" /\ last.pre = <<>>)
        => /\ last.exc = "ValueError"
           /\ last.msg = "Ring is empty"

\* C11: enter_ring, when it returns, has put its boxer at the end of the ring,
\* so the ring is always the sequence of the boxers enter_ring has added since
\* the ring was last cleared, in the order they were added; get_boxers on a
\* ring that is not empty returns exactly that sequence and leaves the ring as
\* it was.
C11_RingIsInsertionOrder ==
    /\ ring = entered
    /\ (last.op = "enter_ring" /\ last.exc = "None")
          => ring = Append(last.pre, last.arg[1])
    /\ (last.op = "get_boxers" /\ last.pre # <<>>)
          => /\ last.exc = "None"
             /\ last.retList = entered
             /\ ring = last.pre

\* get_boxers returned two different boxers, the one that entered first being
\* the one with the greater id
C11_Witness ==
    /\ last.op = "get_boxers"
    /\ Len(last.retList) = 2
    /\ last.retList[1].id > last.retList[2].id
    /\ entered = last.retList

\* C12: enter_ring tests its argument's type before the ring's size: a value
\* that is no Boxer (a plain dict of a boxer's fields) raises TypeError
\* "Invalid type: Expected 'Boxer'" whether the ring holds 0, 1 or 2 boxers,
\* the full ring included, and the ring is as it was.
C12_TypeBeforeCapacity ==
    (last.op = "enter_ring" /\ ~IsBoxer(last.arg[1]))
        => /\ last.exc = "TypeError"
           /\ last.msg = "Invalid type: Expected 'Boxer'"
           /\ ring = last.pre

\* A dict was passed to enter_ring while the ring was full
C12_Witness ==
    /\ last.op = "enter_ring"
    /\ last.arg[1].cls = "dict"
    /\ Len(last.pre) = 2
    /\ last.exc = "TypeError"

----------------------------------------------------------------------------
(* The fighting skill and the logistic value *)

\* weight * len(name) + reach / 10 + ageMod in hundredths, reach being in
\* tenths: ageMod is -1 below 25, -2 above 35 and 0 from 25 to 35
SkillByFormula(boxer) ==
    LET ageMod == CASE boxer.age < 25 -> -1
                    [] boxer.age > 35 -> -2
                    [] 25 <= boxer.age /\ boxer.age <= 35 -> 0
    IN 100 * boxer.weight * Len(boxer.name) + boxer.reach + 100 * ageMod

\* C13: get_fighting_skill(boxer) returns weight * len(name) + reach / 10 +
\* ageMod, where ageMod is -1 for an age below 25, -2 for an age above 35 and
\* 0 for the ages 25 to 35, both included; a name of 9 characters, weight
\* 150, reach 10.9 and age 18 give 1350.09.  The call changes neither the
\* ring nor the table.
C13_FightingSkillFormula ==
    last.op = "get_fighting_skill" =>
        LET boxer == last.arg[1] IN
        /\ last.exc = "None"
        /\ last.retSkill = SkillByFormula(boxer)
        /\ boxer.age \in {25, 35} =>
              last.retSkill = 100 * boxer.weight * Len(boxer.name) + boxer.reach
        /\ (Len(boxer.name) = 9 /\ boxer.weight = 150 /\ boxer.reach = 109 /\ boxer.age = 18)
              => last.retSkill = 135009
        /\ ring = last.pre
        /\ boxers = last.preTbl

\* The skill of a boxer aged 35 was computed while two boxers were in the ring
C13_Witness ==
    /\ last.op = "get_fighting_skill"
    /\ last.arg[1].age = 35
    /\ Len(ring) = 2
    /\ last.retSkill = 100 * last.arg[1].weight * Len(last.arg[1].name) + last.arg[1].reach

\* The fight that was the last call reached line 52 with this skill difference
SkillGap ==
    Abs(SkillByFormula(last.pre[1]) - SkillByFormula(last.pre[2]))

----------------------------------------------------------------------------
(* The boxers table *)

\* The counters of the rows of tbl other than the row of id
OtherCounters(tbl, id) ==
    {<<r.id, r.fights, r.wins>> : r \in {x \in tbl : x.id # id}}

\* C17: update_boxer_stats(boxer_id, result) with a result other than 'win'
\* and 'loss' raises ValueError before the database is opened; with an id
\* that has no row it raises ValueError "Boxer not found" and changes no
\* counter; with an id that has a row it adds exactly 1 to that row's fights
\* and adds exactly 1 to its wins if and only if the result is 'win', and
\* the counters of every other row stay as they were.  (The last two for a
\* database that raises no error of its own.)
C17_UpdateBoxerStats ==
    last.op = "update_boxer_stats" =>
        LET id == last.arg[1]
            result == last.arg[2]
        IN /\ result \notin {"win", "loss"} =>
                /\ last.exc = "ValueError"
                /\ last.msg = "Invalid result"
                /\ boxers = last.preTbl
           /\ (result \in {"win", "loss"} /\ last.exc # "sqlite3.Error") =>
                /\ ~HasRow(last.preTbl, id) =>
                      /\ last.exc = "ValueError"
                      /\ last.msg = "Boxer not found"
                      /\ boxers = last.preTbl
                /\ HasRow(last.preTbl, id) =>
                      /\ last.exc = "None"
                      /\ HasRow(boxers, id)
                      /\ RowOf(boxers, id).fights = RowOf(last.preTbl, id).fights + 1
                      /\ RowOf(boxers, id).wins =
                            RowOf(last.preTbl, id).wins + (IF result = "win" THEN 1 ELSE 0)
                      /\ OtherCounters(boxers, id) = OtherCounters(last.preTbl, id)
                      /\ Cardinality(boxers) = Cardinality(last.preTbl)
           /\ last.exc # "None" => boxers = last.preTbl

\* A loss was recorded for one of two rows, the other of which had a win
C17_Witness ==
    /\ last.op = "update_boxer_stats"
    /\ last.arg[2] = "loss"
    /\ last.exc = "None"
    /\ Cardinality(boxers) = 2
    /\ \E r \in boxers : r.id # last.arg[1] /\ r.wins = 1

----------------------------------------------------------------------------
(* The list get_boxers returns *)

\* C18: the ring is private to the RingModel and has no alias outside it: a
\* caller cannot change the ring through the list get_boxers returned, so in
\* every step the ring's contents change only by a call of enter_ring, fight
\* or clear_ring.
C18_RingChangesOnlyByItsCalls ==
    [][ring' # ring => last'.op \in {"enter_ring", "fight", "clear_ring"}]_vars

----------------------------------------------------------------------------
(* The ring's states *)

\* A step in which the ring's size stays, grows by one or falls to zero, each
\* for the reason the state machine EMPTY -> ONE -> TWO allows
RingStep ==
    LET n == Len(ring)
        m == Len(ring')
    IN \/ m = n
       \/ /\ m = n + 1
          /\ n \in {0, 1}
          /\ last'.op = "enter_ring"
          /\ last'.exc = "None"
       \/ /\ m = 0
          /\ n > 0
          /\ \/ last'.op = "clear_ring"
             \/ /\ n = 2
                /\ last'.op = "fight"
                /\ last'.exc = "None"
                /\ Cardinality(Recordings(last'.effects)) = 2
                /\ ~RecordingFailed(last'.effects)

----------------------------------------------------------------------------
(* Failures during a fight *)

\* The fight that was the last call tried to record the win: the place of
\* that call among its calls, or 0
WinAttempt ==
    LET e == last.effects
        tried == {k \in 1..Len(e) : e[k].call = "update_boxer_stats" /\ e[k].result = "win"}
    IN IF tried = {} THEN 0 ELSE CHOOSE k \in tried : \A j \in tried : k <= j

\* The calls of that fight that tried to record a loss
LossAttempts ==
    {k \in 1..Len(last.effects) :
        /\ last.effects[k].call = "update_boxer_stats"
        /\ last.effects[k].result = "loss"}

SourceFailureMessages ==
    { "Request to random.org timed out.",
      "Request to random.org failed",
      "Invalid response from random.org" }

LossFailedAfterWin ==
    /\ last.op = "fight"
    /\ Len(last.pre) = 2
    /\ last.pre[1].id # last.pre[2].id
    /\ Len(last.effects) = 3
    /\ last.effects[2].call = "update_boxer_stats"
    /\ last.effects[2].exc = "None"
    /\ last.effects[3].call = "update_boxer_stats"
    /\ last.effects[3].exc # "None"

----------------------------------------------------------------------------
(* The place in the ring and the winner *)

\* The fight that was the last call, had the two boxers entered the ring in
\* the other order
FightReversed ==
    fight(<<last.pre[2], last.pre[1]>>, last.preTbl,
          RandomSource(Response("number", 40)), "ok", "ok")

----------------------------------------------------------------------------
(* The rows of the table *)

C24_RingAtMostTwoInterleaved ==
    (last.op = "enter_ring" /\ last.exc = "None") => Len(ring) <= 2

(* The checks of create_boxer *)

\* A name that is empty or made of whitespace only
Blank(name) == \A k \in 1..Len(name) : name[k] \in Whitespace

\* The last call was create_boxer with all five arguments recorded
CreatedWith(name, weight, height, reach, age) ==
    /\ last.op = "create_boxer"
    /\ last.arg = <<name, weight, height, reach, age>>

Rejected == last.exc = "ValueError" /\ boxers = last.preTbl

\* The arguments arg of create_boxer have a value that the claim says is
\* rejected
FailsACheck(arg) ==
    \/ Blank(arg[1])
    \/ arg[2] < 125
    \/ arg[3] <= 0
    \/ arg[4] <= 0
    \/ arg[5] < 18
    \/ arg[5] > 40

NameStored(tbl, name) == \E r \in tbl : r.name = name

ClassByRange(weight) ==
    IF weight \in 125..132 THEN "FEATHERWEIGHT"
    ELSE IF weight \in 133..165 THEN "LIGHTWEIGHT"
    ELSE IF weight \in 166..202 THEN "MIDDLEWEIGHT"
    ELSE "HEAVYWEIGHT"

\* C27: get_weight_class gives every integer weight >= 125 exactly one class:
\* FEATHERWEIGHT for 125..132, LIGHTWEIGHT for 133..165, MIDDLEWEIGHT for
\* 166..202 and HEAVYWEIGHT from 203; every weight below 125 raises an
\* invalid-weight error, so that no Boxer, and no boxer of the ring, has a
\* weight below 125
C27_WeightClassByRange ==
    /\ last.op = "Boxer" =>
          IF last.arg[3] >= 125
          THEN /\ last.exc = "None"
               /\ Len(last.retList) = 1
               /\ last.retList[1].weight = last.arg[3]
               /\ last.retList[1].weight_class = ClassByRange(last.arg[3])
          ELSE /\ last.exc = "ValueError"
               /\ last.msg = "Invalid weight"
               /\ last.retList = <<>>
               /\ ring = last.pre
    /\ \A k \in 1..Len(ring) :
          /\ ring[k].weight >= 125
          /\ ring[k].weight_class = ClassByRange(ring[k].weight)

\* A Boxer of weight 124 was refused while the ring held boxers of the least
\* weights of two classes
C27_Witness ==
    /\ last.op = "Boxer"
    /\ last.arg[3] = 124
    /\ last.exc = "ValueError"
    /\ Len(ring) = 2
    /\ ring[1].weight = 125 /\ ring[1].weight_class = "FEATHERWEIGHT"
    /\ ring[2].weight = 133 /\ ring[2].weight_class = "LIGHTWEIGHT"

====
